---------------------------- MODULE Spec2Model ----------------------------
(***************************************************************************)
(* A model of goscp, an SCP client over an established SSH session.        *)
(*                                                                         *)
(* The repository holds two snapshots of package goscp:                    *)
(*   - the current one (the Go text that follows the prose of README.md,   *)
(*     from line 76 on), with the error stack, Cancel and readCanceller;   *)
(*     goscp_test.go tests this one;                                       *)
(*   - an earlier one (src/goscp/goscp.go), tested by unnamed/part_000.    *)
(* The engines below are the current snapshot's.  The download of the      *)
(* earlier snapshot, whose upDirectory has no guard, is modelled at the    *)
(* end, its definitions with the suffix V1.                                *)
(*                                                                         *)
(* Strings are sequences of one-character strings, so that parsing,        *)
(* formatting, trimming and path handling are computed, not assumed.       *)
(***************************************************************************)
EXTENDS Integers, Sequences, FiniteSets, TLC

(***************************************************************************)
(* Characters                                                              *)
(***************************************************************************)
NUL == "\\0"        \* the byte 0x00: Ack
SOH == "\\1"        \* the byte 0x01: Warning
STX == "\\2"        \* the byte 0x02: Error
LF  == "\n"
SP  == " "
SLASH == "/"

DigitChars == <<"0", "1", "2", "3", "4", "5", "6", "7", "8", "9">>
IsDigit(c) == \E i \in 1..10 : DigitChars[i] = c
DigitVal(c) == (CHOOSE i \in 1..10 : DigitChars[i] = c) - 1

\* unicode.IsSpace, restricted to the white space the model's alphabet has
IsSpace(c) == c \in {SP, LF, "\t", "\r"}

(***************************************************************************)
(* String helpers (package strings, strconv, fmt)                          *)
(***************************************************************************)
RECURSIVE TrimLeftSet(_, _)
TrimLeftSet(s, cut) ==
    IF s # <<>> /\ Head(s) \in cut THEN TrimLeftSet(Tail(s), cut) ELSE s

RECURSIVE TrimRightSet(_, _)
TrimRightSet(s, cut) ==
    IF s # <<>> /\ s[Len(s)] \in cut
    THEN TrimRightSet(SubSeq(s, 1, Len(s) - 1), cut)
    ELSE s

\* strings.Trim(s, "\x00")
TrimNul(s) == TrimRightSet(TrimLeftSet(s, {NUL}), {NUL})

\* strings.TrimSpace(s)
TrimSpace(s) == TrimRightSet(TrimLeftSet(s, {SP, LF, "\t", "\r"}), {SP, LF, "\t", "\r"})

\* strings.HasPrefix(s, c) for a one-character prefix
HasPrefix(s, c) == s # <<>> /\ Head(s) = c

\* strconv.Atoi on a string of digits (the regexp guarantees \d+)
RECURSIVE Atoi(_)
Atoi(s) ==
    IF s = <<>> THEN 0
    ELSE 10 * Atoi(SubSeq(s, 1, Len(s) - 1)) + DigitVal(s[Len(s)])

\* fmt's %d for n >= 0
RECURSIVE Itoa(_)
Itoa(n) ==
    IF n < 10 THEN <<DigitChars[n + 1]>>
    ELSE Itoa(n \div 10) \o <<DigitChars[(n % 10) + 1]>>

\* fmt's %o for n >= 0
RECURSIVE Otoa(_)
Otoa(n) ==
    IF n < 8 THEN <<DigitChars[n + 1]>>
    ELSE Otoa(n \div 8) \o <<DigitChars[(n % 8) + 1]>>

\* index of the first occurrence of c in s, 0 when there is none
IndexOf(s, c) ==
    IF \E i \in 1..Len(s) : s[i] = c
    THEN CHOOSE i \in 1..Len(s) : s[i] = c /\ \A j \in 1..(i - 1) : s[j] # c
    ELSE 0

\* strings.Split(s, "/")
RECURSIVE SplitSlash(_)
SplitSlash(s) ==
    LET i == IndexOf(s, SLASH) IN
    IF i = 0 THEN <<s>>
    ELSE <<SubSeq(s, 1, i - 1)>> \o SplitSlash(SubSeq(s, i + 1, Len(s)))

\* strings.Join(elems, "/")
RECURSIVE JoinSlash(_)
JoinSlash(elems) ==
    IF elems = <<>> THEN <<>>
    ELSE IF Len(elems) = 1 THEN elems[1]
    ELSE elems[1] \o <<SLASH>> \o JoinSlash(Tail(elems))

(***************************************************************************)
(* Paths (package path/filepath, separator '/')                            *)
(***************************************************************************)
DOT == <<".">>
DOTDOT == <<".", ".">>

RECURSIVE NonEmpty(_)
NonEmpty(elems) ==
    IF elems = <<>> THEN <<>>
    ELSE IF Head(elems) = <<>> THEN NonEmpty(Tail(elems))
    ELSE <<Head(elems)>> \o NonEmpty(Tail(elems))

\* the element stack of filepath.Clean: "." and "" dropped, ".." removes the
\* element before it (kept at the front of a relative path, dropped at the root)
RECURSIVE CleanElems(_, _, _)
CleanElems(elems, acc, rooted) ==
    IF elems = <<>> THEN acc
    ELSE LET e == Head(elems) IN
         IF e = <<>> \/ e = DOT THEN CleanElems(Tail(elems), acc, rooted)
         ELSE IF e = DOTDOT
              THEN IF acc # <<>> /\ acc[Len(acc)] # DOTDOT
                   THEN CleanElems(Tail(elems), SubSeq(acc, 1, Len(acc) - 1), rooted)
                   ELSE IF rooted THEN CleanElems(Tail(elems), acc, rooted)
                   ELSE CleanElems(Tail(elems), Append(acc, e), rooted)
              ELSE CleanElems(Tail(elems), Append(acc, e), rooted)

\* filepath.Clean
Clean(p) ==
    IF p = <<>> THEN DOT
    ELSE LET rooted == Head(p) = SLASH
             body == JoinSlash(CleanElems(SplitSlash(p), <<>>, rooted))
         IN IF rooted THEN <<SLASH>> \o body
            ELSE IF body = <<>> THEN DOT ELSE body

\* filepath.Join(elems...)
Join(elems) ==
    IF NonEmpty(elems) = <<>> THEN <<>> ELSE Clean(JoinSlash(NonEmpty(elems)))

\* filepath.Base
Base(p) ==
    IF p = <<>> THEN DOT
    ELSE LET q == TrimRightSet(p, {SLASH}) IN
         IF q = <<>> THEN <<SLASH>>
         ELSE LET parts == SplitSlash(q) IN parts[Len(parts)]


(***************************************************************************)
(* Message codec                                                           *)
(***************************************************************************)
fileCopyRx == "C"   \* C(?P<mode>\d{4}) (?P<length>\d+) (?P<filename>.+)
dirCopyRx  == "D"   \* D(?P<mode>\d{4}) (?P<length>\d+) (?P<dirname>.+)
endDir     == <<"E">>

Ack     == <<NUL>>
ErrByte == <<STX>>

\* length of the longest run of digits of s that starts at index i
RECURSIVE DigitRun(_, _)
DigitRun(s, i) ==
    IF i <= Len(s) /\ IsDigit(s[i]) THEN 1 + DigitRun(s, i + 1) ELSE 0

\* mutant of DotRun: the run stops at a space as well (\S+ for .+)
RECURSIVE DotRunNoSpace(_, _)
DotRunNoSpace(s, i) ==
    IF i <= Len(s) /\ s[i] # LF /\ s[i] # SP THEN 1 + DotRunNoSpace(s, i + 1) ELSE 0

\* length of the longest run of characters other than '\n' that starts at i
RECURSIVE DotRun(_, _)
DotRun(s, i) ==
    IF i <= Len(s) /\ s[i] # LF THEN 1 + DotRun(s, i + 1) ELSE 0

\* whether <tag>\d{4} \d+ .+ matches s starting at index i.  \d+ and .+ are
\* greedy; no shorter \d+ can be followed by the space, so the match at i is
\* unique when it exists.
MatchesAt(s, i, tag) ==
    /\ i + 5 <= Len(s)
    /\ s[i] = tag
    /\ \A j \in (i + 1)..(i + 4) : IsDigit(s[j])
    /\ s[i + 5] = SP
    /\ LET k == DigitRun(s, i + 6) IN
         /\ k >= 1
         /\ i + 6 + k <= Len(s)
         /\ s[i + 6 + k] = SP
         /\ DotRun(s, i + 7 + k) >= 1

\* regexp.FindStringSubmatch: the leftmost match; the regexps are not anchored
FindStringSubmatch(s, tag) ==
    LET starts == {i \in 1..Len(s) : MatchesAt(s, i, tag)} IN
    IF starts = {} THEN <<>>
    ELSE LET i == CHOOSE x \in starts : \A y \in starts : x <= y
             k == DigitRun(s, i + 6)
             d == DotRun(s, i + 7 + k)
         IN << SubSeq(s, i, i + 6 + k + d),          \* the whole match
               SubSeq(s, i + 1, i + 4),              \* mode
               SubSeq(s, i + 6, i + 5 + k),          \* length
               SubSeq(s, i + 7 + k, i + 6 + k + d) >> \* filename / dirname

ParseError(msg) == [kind |-> "Could not parse protocol message: ", text |-> msg]

\* Client.parseMessage
parseMessage(msg, rx) ==
    LET matches == FindStringSubmatch(msg, rx) IN
    IF Len(matches) = 0
    THEN [ok |-> FALSE, err |-> ParseError(msg),
          whole |-> <<>>, mode |-> <<>>, length |-> <<>>, name |-> <<>>]
    ELSE [ok |-> TRUE, err |-> ParseError(<<>>),
          whole |-> matches[1], mode |-> matches[2],
          length |-> matches[3], name |-> matches[4]]

isFileCopyMsg(s) == HasPrefix(s, "C")
isDirCopyMsg(s)  == HasPrefix(s, "D")
isWarningMsg(s)  == HasPrefix(s, SOH)
isErrorMsg(s)    == HasPrefix(s, STX)

\* fmt.Sprintf("D0%o 0 %s", mode, dirname), then Fprintln
sendDirectoryMessage(mode, dirname) ==
    <<"D", "0">> \o Otoa(mode) \o <<SP, "0", SP>> \o dirname \o <<LF>>

\* fmt.Fprintln(w, endDir)
sendEndOfDirectoryMessage == endDir \o <<LF>>

\* fmt.Sprintf("C0%o %d %s", mode, size, filename), then Fprintln
sendFileMessage(mode, size, filename) ==
    <<"C", "0">> \o Otoa(mode) \o <<SP>> \o Itoa(size) \o <<SP>> \o filename \o <<LF>>


(***************************************************************************)
(* Bounds and the environment's alphabet                                   *)
(***************************************************************************)
MaxInbound == 10    \* unread bytes the inbound stream holds (flow-control window)
MaxChunks  == 3     \* writes the remote peer makes during one transfer

DirNames  == {<<"a">>}
FileNames == {<<"f">>}
FileLens  == {0, 2}                 \* lengths the peer's FileCopy lines declare
Dests     == {DOT, <<"d">>}         \* arguments of SetDestinationPath

\* What the remote scp (source mode) writes for a directory, a file, the end of
\* a directory; the protocol's lines, with the modes the tests use.
PeerDirLine(name)     == <<"D", "0", "7", "5", "5", SP, "0", SP>> \o name
PeerFileLine(n, name) == <<"C", "0", "7", "5", "5", SP>> \o Itoa(n) \o <<SP>> \o name

PeerChunks ==
    {PeerDirLine(n) \o <<LF>> : n \in DirNames}
    \cup {PeerFileLine(k, f) \o <<LF>> : k \in FileLens, f \in FileNames}
    \cup { <<"E", LF>>,                 \* end of directory
           <<"x">>,                     \* one byte of a file body
           <<NUL>>,                     \* the peer's own Ack after a body
           <<SOH, "w", LF>>,            \* warning
           <<STX, "e", LF>>,            \* error
           <<"T", "1", SP, "0", SP, "1", SP, "0", LF>>,   \* timestamp
           <<"D", "z", LF>>,            \* malformed directory line
           <<"C", "z", LF>> }           \* malformed file line

(***************************************************************************)
(* Errors                                                                  *)
(***************************************************************************)
Err(kind) == [kind |-> kind, text |-> <<>>]
ErrSession   == Err("ssh: NewSession failed")
ErrPipe      == Err("ssh: pipe failed")
ErrRun       == Err("ssh: Run failed")
ErrRead      == Err("read failed")
ErrEOF       == Err("EOF")
ErrCancelled == Err("Transfer cancelled")
ErrMkdir     == Err("mkdir failed")
ErrCreate    == Err("create failed")
ErrWriteLocal == Err("local write failed")
ErrWarningMsg(m)   == [kind |-> "Warning message: ", text |-> m]
ErrErrorMsg(m)     == [kind |-> "Error message: ", text |-> m]
ErrUnhandledMsg(m) == [kind |-> "Unhandled message: ", text |-> m]

(***************************************************************************)
(* State                                                                   *)
(***************************************************************************)
VARIABLES
    DestinationPath,   \* Client.DestinationPath: sequence of strings
    errors,            \* Client.errors
    scpStdoutPipe,     \* "nil", or the readCanceller's cancel channel: "open" / "closed"
    outbound,          \* the writes made to Client.scpStdinPipe, in order
    inbound,           \* bytes the peer has written that the client has not read
    inEnd,             \* "open"; "eof": the remote command has exited; "err": the channel broke
    chunks,            \* number of writes the peer has made
    callerPc,          \* the task that calls Download/Upload: "idle", "run", "addError", "returned"
    pc,                \* the engine task: "off", "open", "install", "read", "dispatch", "copy", "copyRead", "done"
    msg,               \* the trimmed line being handled
    copyLeft,          \* bytes io.CopyN has still to copy
    copyPath,          \* the file io.CopyN writes to
    fsDirs,            \* local directories (cleaned paths)
    fsFiles,           \* local files: cleaned path -> content
    panicked,          \* a goroutine panicked: the process is gone
    StopOnOSError,     \* Client.StopOnOSError
    cmd,               \* the path in the command given to session.Run
    wstack,            \* filepath.Walk: the directories being listed, outermost first
    addErrorOld,       \* c.errors as the caller's addError read it, until it writes
    codec,             \* a message given to the codec, and what the codec made of it
    cancelled,         \* Cancel was called between the call and the return of the transfer
    hist               \* history of the engine, for stating properties

vars == <<DestinationPath, errors, scpStdoutPipe, outbound, inbound, inEnd, chunks,
          callerPc, pc, msg, copyLeft, copyPath, fsDirs, fsFiles,
          panicked, StopOnOSError, cmd, wstack, addErrorOld, codec, cancelled, hist>>

\* the state only an upload uses
upVars == <<StopOnOSError, cmd, wstack>>

\* What the engine last did with a message: kind "C", "D", "E" (handled) or
\* "fail"; the line; DestinationPath before; for a file its path, declared
\* length, the count of bytes read before its body, whether the whole body was
\* already in the stream and, if so, that body; for a failure its cause.
Last(kind, m, before, path, n, at, full, expect, cause) ==
    [kind |-> kind, msg |-> m, before |-> before, path |-> path, n |-> n,
     at |-> at, full |-> full, expect |-> expect, cause |-> cause]

NoLast == Last("none", <<>>, <<>>, <<>>, 0, 0, FALSE, <<>>, "none")

\* started: the initializing Ack was sent; lines: message lines read; handled: messages fully handled; dirs, pops:
\* D messages handled, E messages that found a non-empty stack; nread: bytes
\* read from the inbound stream; depth0: depth of DestinationPath at the start
\* What the source engine last did with a walk entry: kind "dir", "file",
\* "skip" (an entry with an error, passed over) or "abort"; the entry's path and
\* size; DestinationPath and the number of writes before it.
Item(kind, path, size, before, outAt) ==
    [kind |-> kind, path |-> path, size |-> size, before |-> before, outAt |-> outAt]

NoItem == Item("none", <<>>, 0, <<>>, 0)

\* calls: transfers started on this Client after its first; errs0: the number
\* of errors recorded when the current transfer started; dest0: DestinationPath
\* when the current transfer was called
NoHist == [started |-> FALSE, lines |-> 0, handled |-> 0, dirs |-> 0, pops |-> 0,
           nread |-> 0, depth0 |-> 0, cur |-> NoLast, last |-> NoLast,
           item |-> NoItem, calls |-> 0, errs0 |-> 0, dest0 |-> <<>>]

\* A message for the codec.  kind "file" / "dir": the size and name to encode
\* with sendFileMessage / sendDirectoryMessage and to decode again; kind
\* "parse": the raw line to give to parseMessage with the regexp rx.  done:
\* the codec has run; line: what was written; out: what parseMessage returned.
CodecIn(kind, rx, n, name, raw) ==
    [kind |-> kind, rx |-> rx, n |-> n, name |-> name, raw |-> raw,
     done |-> FALSE, line |-> <<>>,
     out |-> [ok |-> FALSE, err |-> [kind |-> "", text |-> <<>>],
              whole |-> <<>>, mode |-> <<>>, length |-> <<>>, name |-> <<>>]]

NoCodec == CodecIn("none", "", 0, <<>>, <<>>)

\* NewClient
Init ==
    /\ DestinationPath = <<DOT>>
    /\ errors = <<>>
    /\ scpStdoutPipe = "nil"
    /\ outbound = <<>>
    /\ inbound = <<>>
    /\ inEnd = "open"
    /\ chunks = 0
    /\ callerPc = "idle"
    /\ pc = "off"
    /\ msg = <<>>
    /\ copyLeft = 0
    /\ copyPath = <<>>
    /\ fsDirs = {DOT, <<SLASH>>} \cup Dests
    /\ fsFiles = <<>>
    /\ panicked = FALSE
    /\ StopOnOSError = FALSE
    /\ cmd = <<>>
    /\ wstack = <<>>
    /\ addErrorOld = <<>>
    /\ codec = NoCodec
    /\ cancelled = FALSE
    /\ hist = NoHist

\* Client.addError
addError(errs, err) == Append(errs, err)

\* Client.GetLastError
GetLastError(errs) == IF Len(errs) > 0 THEN errs[Len(errs)] ELSE Err("nil")

\* Client.GetErrorStack
GetErrorStack(errs) == errs

\* mutant of sendAck: the Ack is not written
sendAckDropped(out) == out

\* mutant of sendErr: the byte written is the Ack
sendErrAsAck(out) == Append(out, Ack)

\* Client.sendAck, Client.sendErr: one write of one byte
sendAck(out) == Append(out, Ack)
sendErr(out) == Append(out, ErrByte)

\* mutant of upDirectory: the guard is len > 1, a single segment stays
upDirectoryKeepsRoot(path) ==
    IF Len(path) > 1 THEN SubSeq(path, 1, Len(path) - 1) ELSE path

\* Client.upDirectory
upDirectory(path) ==
    IF Len(path) > 0 THEN SubSeq(path, 1, Len(path) - 1) ELSE path

(***************************************************************************)
(* The local file system, as the sink engine uses it                       *)
(***************************************************************************)
LastIndexOf(s, c) ==
    IF \E i \in 1..Len(s) : s[i] = c
    THEN CHOOSE i \in 1..Len(s) : s[i] = c /\ \A j \in (i + 1)..Len(s) : s[j] # c
    ELSE 0

\* filepath.Dir
Dir(p) == Clean(SubSeq(p, 1, LastIndexOf(p, SLASH)))

\* filepath.Join(c.DestinationPath...) + string(filepath.Separator) + name
TargetPath(path, name) == Join(path) \o <<SLASH>> \o name

\* mutant of CanMkdir: an existing directory is no failure (os.MkdirAll)
CanMkdirExisting(p) ==
    /\ Clean(p) \notin DOMAIN fsFiles
    /\ Dir(Clean(p)) \in fsDirs

\* os.Mkdir succeeds: nothing is at the path and its parent is a directory
CanMkdir(p) ==
    /\ Clean(p) \notin fsDirs
    /\ Clean(p) \notin DOMAIN fsFiles
    /\ Dir(Clean(p)) \in fsDirs

\* os.Create succeeds: the path is no directory and its parent is a directory
CanCreate(p) ==
    /\ Clean(p) \notin fsDirs
    /\ Dir(Clean(p)) \in fsDirs

\* the file at path p with content c (created, truncated or extended)
WriteFile(files, p, c) ==
    [q \in DOMAIN files \cup {p} |-> IF q = p THEN c ELSE files[q]]


(***************************************************************************)
(* The caller's task: SetDestinationPath, Download, Cancel                 *)
(***************************************************************************)
engineVars == <<pc, msg, copyLeft, copyPath, fsDirs, fsFiles, outbound, hist>>
peerVars   == <<inbound, inEnd, chunks>>

\* Client.SetDestinationPath
SetDestinationPath(path) ==
    /\ ~panicked /\ callerPc = "idle"
    /\ DestinationPath # <<path>>
    /\ DestinationPath' = <<path>>
    /\ UNCHANGED <<errors, scpStdoutPipe, callerPc, panicked>>
    /\ UNCHANGED engineVars /\ UNCHANGED peerVars
    /\ UNCHANGED upVars
    /\ UNCHANGED addErrorOld
    /\ UNCHANGED codec
    /\ UNCHANGED cancelled

\* Client.Download up to session.Run: NewSession, then go c.handleDownload
Download ==
    /\ ~panicked /\ callerPc = "idle"
    /\ \E ok \in BOOLEAN :
         IF ok
         THEN /\ callerPc' = "run"
              /\ pc' = "open"
              /\ hist' = [hist EXCEPT !.depth0 = Len(DestinationPath),
                                      !.dest0 = DestinationPath,
                                      !.errs0 = Len(errors)]
              /\ UNCHANGED errors
         ELSE /\ callerPc' = "returned"
              /\ errors' = addError(errors, ErrSession)
              /\ UNCHANGED <<pc, hist>>
    /\ UNCHANGED <<DestinationPath, scpStdoutPipe, panicked, msg, copyLeft, copyPath,
                   fsDirs, fsFiles, outbound>>
    /\ UNCHANGED peerVars
    /\ UNCHANGED upVars
    /\ UNCHANGED addErrorOld
    /\ UNCHANGED codec
    /\ UNCHANGED cancelled

\* session.Run returns, once the remote command has exited or the channel has
\* broken, and Download returns; nothing waits for the engine task
DownloadReturn ==
    /\ ~panicked /\ callerPc = "run" /\ inEnd # "open"
    /\ \E ok \in BOOLEAN :
         /\ inEnd = "err" => ~ok
         /\ IF ok
            THEN /\ callerPc' = "returned"
                 /\ UNCHANGED addErrorOld
            ELSE /\ callerPc' = "addError"
                 /\ addErrorOld' = errors
    /\ UNCHANGED <<DestinationPath, errors, scpStdoutPipe, panicked>>
    /\ UNCHANGED engineVars /\ UNCHANGED peerVars
    /\ UNCHANGED upVars
    /\ UNCHANGED codec
    /\ UNCHANGED cancelled

\* c.addError(err) in the caller's task, its write: c.errors = append(old, err).
\* The engine task calls addError too and nothing orders the two (a data
\* race): an error the engine has recorded since the caller read c.errors is
\* overwritten.  Then Download or Upload returns.
addErrorRun ==
    /\ ~panicked /\ callerPc = "addError"
    /\ errors' = addError(addErrorOld, ErrRun)
    /\ addErrorOld' = <<>>
    /\ callerPc' = "returned"
    /\ UNCHANGED <<DestinationPath, scpStdoutPipe, panicked>>
    /\ UNCHANGED engineVars /\ UNCHANGED peerVars
    /\ UNCHANGED upVars
    /\ UNCHANGED codec
    /\ UNCHANGED cancelled

\* Client.Cancel: close(c.scpStdoutPipe.cancel) when the pipe is set; closing a
\* closed channel panics
Cancel ==
    /\ ~panicked
    /\ \/ /\ scpStdoutPipe = "nil"
          /\ UNCHANGED <<scpStdoutPipe, panicked>>
       \/ /\ scpStdoutPipe = "open"
          /\ scpStdoutPipe' = "closed"
          /\ UNCHANGED panicked
       \/ /\ scpStdoutPipe = "closed"
          /\ panicked' = TRUE
          /\ UNCHANGED scpStdoutPipe
    /\ cancelled' = (cancelled \/ callerPc \in {"cmd", "run", "addError"})
    /\ UNCHANGED <<DestinationPath, errors, callerPc>>
    /\ UNCHANGED engineVars /\ UNCHANGED peerVars
    /\ UNCHANGED upVars
    /\ UNCHANGED addErrorOld
    /\ UNCHANGED codec

(***************************************************************************)
(* The remote peer and the channel                                         *)
(***************************************************************************)
clientVars == <<DestinationPath, errors, scpStdoutPipe, callerPc, panicked>>

\* the remote command writes to its standard output
PeerSend(c) ==
    /\ ~panicked /\ callerPc = "run" /\ inEnd = "open"
    /\ chunks < MaxChunks
    /\ Len(inbound) + Len(c) <= MaxInbound
    /\ inbound' = inbound \o c
    /\ chunks' = chunks + 1
    /\ UNCHANGED inEnd
    /\ UNCHANGED clientVars /\ UNCHANGED engineVars
    /\ UNCHANGED upVars
    /\ UNCHANGED addErrorOld
    /\ UNCHANGED codec
    /\ UNCHANGED cancelled

\* the remote command exits: end of stream after what it wrote
PeerExit ==
    /\ ~panicked /\ callerPc = "run" /\ inEnd = "open"
    /\ inEnd' = "eof"
    /\ UNCHANGED <<inbound, chunks>>
    /\ UNCHANGED clientVars /\ UNCHANGED engineVars
    /\ UNCHANGED upVars
    /\ UNCHANGED addErrorOld
    /\ UNCHANGED codec
    /\ UNCHANGED cancelled

\* the channel breaks: reads fail after what was received
ChannelBreak ==
    /\ ~panicked /\ callerPc = "run" /\ inEnd = "open"
    /\ inEnd' = "err"
    /\ UNCHANGED <<inbound, chunks>>
    /\ UNCHANGED clientVars /\ UNCHANGED engineVars
    /\ UNCHANGED upVars
    /\ UNCHANGED addErrorOld
    /\ UNCHANGED codec
    /\ UNCHANGED cancelled


(***************************************************************************)
(* The sink engine: Client.handleDownload                                  *)
(***************************************************************************)
\* c.errors as c.addError(err) reads it in the engine task.  addError is an
\* unsynchronised read and write (a data race with the append of the task that
\* called Download or Upload): the read gives the current value, or misses
\* the caller's append and gives what c.errors was when the transfer was
\* called (the engine records at most one error in a transfer).
engineErrorsRead == {errors, SubSeq(errors, 1, hist.errs0)}

\* what c.errors can be after c.addError(err) in the engine task
engineAddError(err) == {addError(old, err) : old \in engineErrorsRead}

\* the engine records err and returns; out is what it has written
EngineFail(err, cause, out) ==
    /\ errors' \in engineAddError(err)
    /\ pc' = "done"
    /\ outbound' = out
    /\ hist' = [hist EXCEPT !.last = [hist.cur EXCEPT !.kind = "fail", !.cause = cause],
                            !.cur = NoLast]

\* the action on the message succeeded: the confirming Ack, and back to reading
EngineHandled(kind) ==
    /\ pc' = "read"
    /\ outbound' = sendAck(outbound)
    /\ hist' = [hist EXCEPT !.handled = @ + 1,
                            !.dirs = IF kind = "D" THEN @ + 1 ELSE @,
                            !.pops = IF kind = "E" /\ Len(DestinationPath) > 0
                                     THEN @ + 1 ELSE @,
                            !.last = [hist.cur EXCEPT !.kind = kind],
                            !.cur = NoLast]
    /\ UNCHANGED errors

\* session.StdinPipe, session.StdoutPipe, and the Ack that initializes the transfer
handleDownloadOpen ==
    /\ ~panicked /\ pc = "open"
    /\ \E ok \in BOOLEAN :
         IF ok
         THEN /\ outbound' = sendAck(outbound)
              /\ pc' = "install"
              /\ hist' = [hist EXCEPT !.started = TRUE]
              /\ UNCHANGED errors
         ELSE /\ errors' \in engineAddError(ErrPipe)
              /\ pc' = "done"
              /\ UNCHANGED <<outbound, hist>>
    /\ UNCHANGED <<DestinationPath, scpStdoutPipe, callerPc, panicked,
                   msg, copyLeft, copyPath, fsDirs, fsFiles>>
    /\ UNCHANGED peerVars
    /\ UNCHANGED upVars
    /\ UNCHANGED addErrorOld
    /\ UNCHANGED codec
    /\ UNCHANGED cancelled

\* c.scpStdoutPipe = &readCanceller{...}: a new reader with a new, open channel
handleDownloadInstall ==
    /\ ~panicked /\ pc = "install"
    /\ scpStdoutPipe' = "open"
    /\ pc' = "read"
    /\ UNCHANGED <<DestinationPath, errors, callerPc, panicked, msg, copyLeft, copyPath,
                   fsDirs, fsFiles, outbound, hist>>
    /\ UNCHANGED peerVars
    /\ UNCHANGED upVars
    /\ UNCHANGED addErrorOld
    /\ UNCHANGED codec
    /\ UNCHANGED cancelled

\* mutant of readStringFailed: io.EOF is recorded like any other error
readStringFailedRecordsEOF(errs, end) ==
    addError(errs, IF end = "eof" THEN ErrEOF ELSE ErrRead)

\* ReadString failed: if err != io.EOF { c.addError(err) }
readStringFailed(errs, end) ==
    IF end = "eof" THEN errs ELSE addError(errs, ErrRead)

\* c.scpStdoutPipe.ReadString('\n'): the method of the embedded *bufio.Reader,
\* which fills its buffer from the session's reader and never calls
\* readCanceller.Read.  Then the trimming and the Ack that confirms the line.
handleDownloadRead ==
    /\ ~panicked /\ pc = "read"
    /\ LET i == IndexOf(inbound, LF) IN
         IF i > 0
         THEN /\ inbound' = SubSeq(inbound, i + 1, Len(inbound))
              /\ msg' = TrimSpace(TrimNul(SubSeq(inbound, 1, i)))
              /\ outbound' = sendAck(outbound)
              /\ pc' = "dispatch"
              /\ hist' = [hist EXCEPT
                    !.lines = @ + 1, !.nread = @ + i,
                    !.cur = Last("cur", TrimSpace(TrimNul(SubSeq(inbound, 1, i))),
                                 DestinationPath, <<>>, 0, hist.nread + i, FALSE, <<>>, "none")]
              /\ UNCHANGED errors
         ELSE /\ inEnd # "open"
              /\ inbound' = <<>>
              /\ errors' \in {readStringFailed(old, inEnd) :
                                old \in IF inEnd = "eof" THEN {errors}
                                        ELSE engineErrorsRead}
              /\ pc' = "done"
              /\ hist' = [hist EXCEPT !.nread = @ + Len(inbound)]
              /\ UNCHANGED <<msg, outbound>>
    /\ UNCHANGED <<DestinationPath, scpStdoutPipe, callerPc, panicked, copyLeft, copyPath,
                   fsDirs, fsFiles, inEnd, chunks>>
    /\ UNCHANGED upVars
    /\ UNCHANGED addErrorOld
    /\ UNCHANGED codec
    /\ UNCHANGED cancelled

\* case c.isFileCopyMsg(msg): Client.file up to io.CopyN; a length of 0 copies
\* nothing (io.LimitedReader answers EOF without a read) and the file is done
handleFile ==
    /\ ~panicked /\ pc = "dispatch" /\ isFileCopyMsg(msg)
    /\ LET parts   == parseMessage(msg, fileCopyRx)
           fileLen == Atoi(parts.length)
           target  == TargetPath(DestinationPath, parts.name)
       IN IF ~parts.ok
          THEN /\ EngineFail(parts.err, "parse", outbound)
               /\ UNCHANGED <<fsFiles, copyLeft, copyPath>>
          ELSE \E osOk \in BOOLEAN :
               IF ~(osOk /\ CanCreate(target))
               THEN /\ EngineFail(ErrCreate, "create", outbound)
                    /\ UNCHANGED <<fsFiles, copyLeft, copyPath>>
               ELSE /\ fsFiles' = WriteFile(fsFiles, Clean(target), <<>>)
                    /\ IF fileLen = 0
                       THEN /\ pc' = "read"
                            /\ outbound' = sendAck(outbound)
                            /\ hist' = [hist EXCEPT
                                  !.handled = @ + 1,
                                  !.last = [hist.cur EXCEPT !.kind = "C", !.path = Clean(target),
                                                            !.n = 0, !.full = TRUE],
                                  !.cur = NoLast]
                            /\ UNCHANGED <<errors, copyLeft, copyPath>>
                       ELSE /\ pc' = "copy"
                            /\ copyLeft' = fileLen
                            /\ copyPath' = Clean(target)
                            /\ hist' = [hist EXCEPT
                                  !.cur = [@ EXCEPT !.path = Clean(target), !.n = fileLen,
                                             !.full = Len(inbound) >= fileLen
                                                      /\ scpStdoutPipe # "closed",
                                             !.expect = IF Len(inbound) >= fileLen
                                                        THEN SubSeq(inbound, 1, fileLen)
                                                        ELSE <<>>]]
                            /\ UNCHANGED <<errors, outbound>>
    /\ UNCHANGED <<DestinationPath, scpStdoutPipe, callerPc, panicked, msg, fsDirs>>
    /\ UNCHANGED peerVars
    /\ UNCHANGED upVars
    /\ UNCHANGED addErrorOld
    /\ UNCHANGED codec
    /\ UNCHANGED cancelled

\* mutant of bufioRead: the request's size is ignored (io.Copy for io.CopyN)
bufioReadUnlimited(avail, want, end) ==
    IF avail > 0 THEN <<avail, "nil">>
    ELSE IF end = "eof" THEN <<0, "EOF">>
    ELSE IF end = "err" THEN <<0, "read failed">>
    ELSE <<0, "block">>

\* bufio.Reader.Read for a request of want > 0 bytes when avail bytes have
\* arrived: <<n, err>>; "block" when nothing has arrived and the stream is open
bufioRead(avail, want, end) ==
    IF avail > 0 THEN <<IF want < avail THEN want ELSE avail, "nil">>
    ELSE IF end = "eof" THEN <<0, "EOF">>
    ELSE IF end = "err" THEN <<0, "read failed">>
    ELSE <<0, "block">>

\* mutant of readCancellerRead: no cancellation check
readCancellerReadUnchecked(cancel, avail, want, end) ==
    IF avail > 0 THEN <<IF want < avail THEN want ELSE avail, "nil">>
    ELSE IF end = "eof" THEN <<0, "EOF">>
    ELSE IF end = "err" THEN <<0, "read failed">>
    ELSE <<0, "block">>

\* readCanceller.Read: the cancellation check, then the embedded reader's Read
readCancellerRead(cancel, avail, want, end) ==
    IF cancel = "closed" THEN <<0, "Transfer cancelled">>
    ELSE bufioRead(avail, want, end)

\* the outcome of one round of io.CopyN(w, c.scpStdoutPipe, fileLen) whose Read
\* returned r = <<n, err>>: the n bytes are written to the local file, all of
\* them or, when the write fails, fewer; then either the next round, or the
\* end of Client.file and the confirming Ack, or sendErr and the error
copyRound(r) ==
    LET n == r[1] IN
    IF r[2] = "nil"
    THEN /\ inbound' = SubSeq(inbound, n + 1, Len(inbound))
         /\ \E wrote \in 0..n :
              /\ fsFiles' = WriteFile(fsFiles, copyPath,
                                      fsFiles[copyPath] \o SubSeq(inbound, 1, wrote))
              /\ IF wrote < n
                 THEN /\ errors' \in engineAddError(ErrWriteLocal)
                      /\ pc' = "done"
                      /\ outbound' = sendErr(outbound)
                      /\ hist' = [hist EXCEPT
                            !.nread = @ + n,
                            !.last = [hist.cur EXCEPT !.kind = "fail",
                                                      !.cause = "local write failed"],
                            !.cur = NoLast]
                      /\ UNCHANGED copyLeft
                 ELSE /\ copyLeft' = copyLeft - n
                      /\ IF copyLeft - n = 0
                         THEN /\ pc' = "read"
                              /\ outbound' = sendAck(outbound)
                              /\ hist' = [hist EXCEPT
                                    !.handled = @ + 1, !.nread = @ + n,
                                    !.last = [hist.cur EXCEPT !.kind = "C"],
                                    !.cur = NoLast]
                         ELSE /\ pc' = "copy"
                              /\ hist' = [hist EXCEPT !.nread = @ + n]
                              /\ UNCHANGED outbound
                      /\ UNCHANGED errors
    ELSE /\ errors' \in engineAddError(Err(r[2]))
         /\ pc' = "done"
         /\ outbound' = sendErr(outbound)
         /\ hist' = [hist EXCEPT
               !.last = [hist.cur EXCEPT !.kind = "fail", !.cause = r[2]],
               !.cur = NoLast]
         /\ UNCHANGED <<inbound, fsFiles, copyLeft>>

\* one round of io.CopyN: the call of readCanceller.Read.  The select finds
\* the signal raised and Read fails; or it does not, and the embedded
\* reader's Read returns what has arrived, or waits (pc "copyRead") when
\* nothing has arrived and the stream is open
handleFileCopy ==
    /\ ~panicked /\ pc = "copy"
    /\ LET r == readCancellerRead(scpStdoutPipe, Len(inbound), copyLeft, inEnd)
       IN IF r[2] = "block"
          THEN /\ pc' = "copyRead"
               /\ UNCHANGED <<inbound, fsFiles, copyLeft, errors, outbound, hist>>
          ELSE copyRound(r)
    /\ UNCHANGED <<DestinationPath, scpStdoutPipe, callerPc, panicked, msg, copyPath,
                   fsDirs, inEnd, chunks>>
    /\ UNCHANGED upVars
    /\ UNCHANGED addErrorOld
    /\ UNCHANGED codec
    /\ UNCHANGED cancelled

\* r.Reader.Read returns to a Read that was waiting: the select is behind it,
\* so it returns the bytes that arrived, the end of the stream or the read
\* error, whether or not Cancel has closed the channel meanwhile
handleFileCopyRead ==
    /\ ~panicked /\ pc = "copyRead"
    /\ LET r == bufioRead(Len(inbound), copyLeft, inEnd)
       IN /\ r[2] # "block"
          /\ copyRound(r)
    /\ UNCHANGED <<DestinationPath, scpStdoutPipe, callerPc, panicked, msg, copyPath,
                   fsDirs, inEnd, chunks>>
    /\ UNCHANGED upVars
    /\ UNCHANGED addErrorOld
    /\ UNCHANGED codec
    /\ UNCHANGED cancelled

\* case c.isDirCopyMsg(msg): Client.directory
handleDirectory ==
    /\ ~panicked /\ pc = "dispatch" /\ ~isFileCopyMsg(msg) /\ isDirCopyMsg(msg)
    /\ LET parts  == parseMessage(msg, dirCopyRx)
           target == TargetPath(DestinationPath, parts.name)
       IN IF ~parts.ok
          THEN /\ EngineFail(parts.err, "parse", outbound)
               /\ UNCHANGED <<fsDirs, DestinationPath>>
          ELSE \E osOk \in BOOLEAN :
               IF ~(osOk /\ CanMkdir(target))
               THEN /\ EngineFail(ErrMkdir, "mkdir", outbound)
                    /\ UNCHANGED <<fsDirs, DestinationPath>>
               ELSE /\ fsDirs' = fsDirs \cup {Clean(target)}
                    /\ DestinationPath' = Append(DestinationPath, parts.name)
                    /\ EngineHandled("D")
    /\ UNCHANGED <<scpStdoutPipe, callerPc, panicked, msg, copyLeft, copyPath, fsFiles>>
    /\ UNCHANGED peerVars
    /\ UNCHANGED upVars
    /\ UNCHANGED addErrorOld
    /\ UNCHANGED codec
    /\ UNCHANGED cancelled

\* case msg == endDir: Client.upDirectory
handleEndDir ==
    /\ ~panicked /\ pc = "dispatch" /\ ~isFileCopyMsg(msg) /\ ~isDirCopyMsg(msg)
    /\ msg = endDir
    /\ DestinationPath' = upDirectory(DestinationPath)
    /\ EngineHandled("E")
    /\ UNCHANGED <<scpStdoutPipe, callerPc, panicked, msg, copyLeft, copyPath,
                   fsDirs, fsFiles>>
    /\ UNCHANGED peerVars
    /\ UNCHANGED upVars
    /\ UNCHANGED addErrorOld
    /\ UNCHANGED codec
    /\ UNCHANGED cancelled

\* mutant of handleOther: the error is recorded and the loop goes on, with the
\* closing Ack
handleOtherContinues ==
    /\ ~panicked /\ pc = "dispatch" /\ ~isFileCopyMsg(msg) /\ ~isDirCopyMsg(msg)
    /\ msg # endDir
    /\ errors' = addError(errors, ErrUnhandledMsg(msg))
    /\ pc' = "read"
    /\ outbound' = sendAck(outbound)
    /\ hist' = [hist EXCEPT !.last = [hist.cur EXCEPT !.kind = "fail"], !.cur = NoLast]
    /\ UNCHANGED <<DestinationPath, scpStdoutPipe, callerPc, panicked, msg, copyLeft,
                   copyPath, fsDirs, fsFiles>>
    /\ UNCHANGED peerVars
    /\ UNCHANGED upVars
    /\ UNCHANGED addErrorOld
    /\ UNCHANGED codec
    /\ UNCHANGED cancelled

\* case c.isWarningMsg(msg), case c.isErrorMsg(msg), default
handleOther ==
    /\ ~panicked /\ pc = "dispatch" /\ ~isFileCopyMsg(msg) /\ ~isDirCopyMsg(msg)
    /\ msg # endDir
    /\ IF isWarningMsg(msg) THEN EngineFail(ErrWarningMsg(msg), "warning", outbound)
       ELSE IF isErrorMsg(msg) THEN EngineFail(ErrErrorMsg(msg), "error", outbound)
       ELSE EngineFail(ErrUnhandledMsg(msg), "unhandled", outbound)
    /\ UNCHANGED <<DestinationPath, scpStdoutPipe, callerPc, panicked, msg, copyLeft,
                   copyPath, fsDirs, fsFiles>>
    /\ UNCHANGED peerVars
    /\ UNCHANGED upVars
    /\ UNCHANGED addErrorOld
    /\ UNCHANGED codec
    /\ UNCHANGED cancelled

(***************************************************************************)
(* A download                                                              *)
(***************************************************************************)
Next ==
    \/ \E path \in Dests : SetDestinationPath(path)
    \/ Download
    \/ DownloadReturn
    \/ addErrorRun
    \/ Cancel
    \/ \E c \in PeerChunks : PeerSend(c)
    \/ PeerExit
    \/ ChannelBreak
    \/ handleDownloadOpen
    \/ handleDownloadInstall
    \/ handleDownloadRead
    \/ handleFile
    \/ handleFileCopy
    \/ handleFileCopyRead
    \/ handleDirectory
    \/ handleEndDir
    \/ handleOther

Spec == Init /\ [][Next]_vars


(***************************************************************************)
(* Several downloads on one Client                                         *)
(***************************************************************************)
MaxAgain == 1       \* downloads started after the first one

\* what the remote writes in these downloads
AgainChunks == { <<"E", LF>>, <<SOH, "w", LF>> }

\* Client.Download called again, after a transfer that has returned and whose
\* engine has ended: a new session with new pipes; the Client's fields
\* (DestinationPath, errors, scpStdoutPipe) are what the last transfer left
DownloadAgain ==
    /\ ~panicked /\ callerPc = "returned" /\ pc \in {"off", "done"}
    /\ hist.calls < MaxAgain
    /\ \E ok \in BOOLEAN :
         IF ok
         THEN /\ callerPc' = "run"
              /\ pc' = "open"
              /\ hist' = [NoHist EXCEPT !.depth0 = Len(DestinationPath),
                                        !.dest0 = DestinationPath,
                                        !.errs0 = Len(errors),
                                        !.calls = hist.calls + 1]
              /\ inbound' = <<>> /\ inEnd' = "open" /\ chunks' = 0
              /\ outbound' = <<>>
              /\ cancelled' = FALSE
              /\ UNCHANGED errors
         ELSE /\ callerPc' = "returned"
              /\ errors' = addError(errors, ErrSession)
              /\ hist' = [hist EXCEPT !.calls = @ + 1]
              /\ UNCHANGED <<pc, inbound, inEnd, chunks, outbound, cancelled>>
    /\ UNCHANGED <<DestinationPath, scpStdoutPipe, panicked, msg, copyLeft, copyPath,
                   fsDirs, fsFiles>>
    /\ UNCHANGED upVars
    /\ UNCHANGED addErrorOld
    /\ UNCHANGED codec

NextAgain ==
    \/ Download
    \/ DownloadAgain
    \/ DownloadReturn
    \/ addErrorRun
    \/ \E c \in AgainChunks : PeerSend(c)
    \/ PeerExit
    \/ ChannelBreak
    \/ handleDownloadOpen
    \/ handleDownloadInstall
    \/ handleDownloadRead
    \/ handleEndDir
    \/ handleOther

SpecAgain == Init /\ [][NextAgain]_vars

(***************************************************************************)
(* The source engine: Client.Upload, Client.handleUpload, Client.handleItem *)
(***************************************************************************)
MaxDepth == 3       \* directories nested in the walked tree, the root included
MaxAcks  == 1       \* bytes the remote sink writes back during an upload
MaxSent  == 4       \* the walk visits no further entry after this many writes

FileMode == 420     \* 0644, the mode of every line sent

Names == <<"a", "b">>                \* entry names, in the order of the walk
Sizes == {0, 2}                      \* file sizes
Roots == {<<"r">>, <<"r", SLASH, "s">>, <<SLASH, "r">>}   \* arguments of Upload

ErrWalk  == Err("lstat failed")
ErrOpen  == Err("open failed")
ErrWrite == Err("write failed")

\* mutant of Body: one byte whatever the size
BodyOneByte(n) == <<"x">>

RECURSIVE Body(_)
Body(n) == IF n = 0 THEN <<>> ELSE <<"x">> \o Body(n - 1)

\* for i := from; i < to; i++ { c.sendEndOfDirectoryMessage(w) }
RECURSIVE EndOfDirectoryLoop(_, _)
EndOfDirectoryLoop(from, to) ==
    IF from < to
    THEN <<sendEndOfDirectoryMessage>> \o EndOfDirectoryLoop(from + 1, to)
    ELSE <<>>

\* mutant of endOfDirectoryMessages: the loop starts at len(newPath)
endOfDirectoryMessagesFromNew(stack, path) ==
    IF Len(stack) # 0
    THEN LET currentPath == SplitSlash(Join(stack))
             newPath     == SplitSlash(path)
         IN IF Len(newPath) <= Len(currentPath)
            THEN EndOfDirectoryLoop(Len(newPath), Len(currentPath))
            ELSE <<>>
    ELSE <<>>

\* Client.handleItem for a directory: the EndOfDirectory messages written
\* before its DirCopy message
endOfDirectoryMessages(stack, path) ==
    IF Len(stack) # 0
    THEN LET currentPath == SplitSlash(Join(stack))
             newPath     == SplitSlash(path)
         IN IF Len(newPath) <= Len(currentPath)
            THEN EndOfDirectoryLoop(Len(newPath) - 1, Len(currentPath))
            ELSE <<>>
    ELSE <<>>

\* Client.handleItem(path, info, err): kind is "err" (err != nil), "dir" or
\* "file"; opened: os.Open succeeds; writable: io.Copy to the pipe succeeds.
\* The result: the writes made, DestinationPath, and the error returned.
handleItem(out, stack, stop, path, kind, size, opened, writable) ==
    IF kind = "err"
    THEN [out |-> out, dest |-> stack,
          err |-> IF stop THEN ErrWalk ELSE Err("nil")]
    ELSE IF kind = "dir"
    THEN [out |-> out \o endOfDirectoryMessages(stack, path)
                      \o <<sendDirectoryMessage(FileMode, Base(path))>>,
          dest |-> <<path>>, err |-> Err("nil")]
    ELSE IF ~opened
    THEN [out |-> out, dest |-> stack, err |-> ErrOpen]
    ELSE LET line == sendFileMessage(FileMode, size, Base(path)) IN
         IF size > 0
         THEN IF writable
              THEN [out |-> out \o <<line, Body(size), Ack>>,
                    dest |-> stack, err |-> Err("nil")]
              ELSE [out |-> out \o <<line, ErrByte>>,
                    dest |-> stack, err |-> ErrWrite]
         ELSE [out |-> sendAck(Append(out, line)),
               dest |-> stack, err |-> Err("nil")]

\* c.StopOnOSError = true
SetStopOnOSError ==
    /\ ~panicked /\ callerPc = "idle" /\ ~StopOnOSError
    /\ StopOnOSError' = TRUE
    /\ UNCHANGED <<DestinationPath, errors, scpStdoutPipe, callerPc, panicked, cmd, wstack>>
    /\ UNCHANGED engineVars /\ UNCHANGED peerVars
    /\ UNCHANGED addErrorOld
    /\ UNCHANGED codec
    /\ UNCHANGED cancelled

\* Client.Upload up to the go statement: NewSession, then go c.handleUpload
Upload(localPath) ==
    /\ ~panicked /\ callerPc = "idle"
    /\ \E ok \in BOOLEAN :
         IF ok
         THEN /\ callerPc' = "cmd"
              /\ pc' = "up_open"
              /\ wstack' = <<[path |-> localPath, next |-> 0]>>
              /\ hist' = [hist EXCEPT !.dest0 = DestinationPath,
                                      !.errs0 = Len(errors)]
              /\ UNCHANGED errors
         ELSE /\ callerPc' = "returned"
              /\ errors' = addError(errors, ErrSession)
              /\ UNCHANGED <<pc, wstack, hist>>
    /\ UNCHANGED <<DestinationPath, scpStdoutPipe, panicked, StopOnOSError, cmd,
                   msg, copyLeft, copyPath, fsDirs, fsFiles, outbound>>
    /\ UNCHANGED peerVars
    /\ UNCHANGED addErrorOld
    /\ UNCHANGED codec
    /\ UNCHANGED cancelled

\* cmd := ... filepath.Join(c.DestinationPath...), read after the go statement;
\* then session.Run(cmd) starts the remote command
UploadRun ==
    /\ ~panicked /\ callerPc = "cmd"
    /\ cmd' = Join(DestinationPath)
    /\ callerPc' = "run"
    /\ UNCHANGED <<DestinationPath, errors, scpStdoutPipe, panicked, StopOnOSError, wstack>>
    /\ UNCHANGED engineVars /\ UNCHANGED peerVars
    /\ UNCHANGED addErrorOld
    /\ UNCHANGED codec
    /\ UNCHANGED cancelled

\* session.Run returns and Upload returns; nothing waits for the engine task
UploadReturn ==
    /\ ~panicked /\ callerPc = "run" /\ inEnd # "open"
    /\ \E ok \in BOOLEAN :
         /\ inEnd = "err" => ~ok
         /\ IF ok
            THEN /\ callerPc' = "returned"
                 /\ UNCHANGED addErrorOld
            ELSE /\ callerPc' = "addError"
                 /\ addErrorOld' = errors
    /\ UNCHANGED <<DestinationPath, errors, scpStdoutPipe, panicked, StopOnOSError, cmd, wstack>>
    /\ UNCHANGED engineVars /\ UNCHANGED peerVars
    /\ UNCHANGED codec
    /\ UNCHANGED cancelled

\* the remote sink writes a byte (its Ack) to its standard output
PeerAck ==
    /\ ~panicked /\ callerPc = "run" /\ inEnd = "open"
    /\ chunks < MaxAcks
    /\ inbound' = inbound \o Ack
    /\ chunks' = chunks + 1
    /\ UNCHANGED inEnd
    /\ UNCHANGED clientVars /\ UNCHANGED engineVars /\ UNCHANGED upVars
    /\ UNCHANGED addErrorOld
    /\ UNCHANGED codec
    /\ UNCHANGED cancelled

\* session.StdinPipe, session.StdoutPipe
handleUploadOpen ==
    /\ ~panicked /\ pc = "up_open"
    /\ \E ok \in BOOLEAN :
         IF ok
         THEN /\ pc' = "up_install"
              /\ UNCHANGED errors
         ELSE /\ errors' \in engineAddError(ErrPipe)
              /\ pc' = "done"
    /\ UNCHANGED <<DestinationPath, scpStdoutPipe, callerPc, panicked, StopOnOSError, cmd,
                   msg, copyLeft, copyPath, fsDirs, fsFiles, outbound, hist, wstack>>
    /\ UNCHANGED peerVars
    /\ UNCHANGED addErrorOld
    /\ UNCHANGED codec
    /\ UNCHANGED cancelled

\* c.scpStdoutPipe = &readCanceller{...}; c.DestinationPath = []string{}
handleUploadInstall ==
    /\ ~panicked /\ pc = "up_install"
    /\ scpStdoutPipe' = "open"
    /\ DestinationPath' = <<>>
    /\ pc' = "walk"
    /\ UNCHANGED <<errors, callerPc, panicked, StopOnOSError, cmd,
                   msg, copyLeft, copyPath, fsDirs, fsFiles, outbound, hist, wstack>>
    /\ UNCHANGED peerVars
    /\ UNCHANGED addErrorOld
    /\ UNCHANGED codec
    /\ UNCHANGED cancelled

\* filepath.Walk calls c.handleItem for the entry at path; rest is the walk's
\* stack if the walk goes on.  An error returned ends the walk:
\* err = filepath.Walk(...); if err != nil { c.addError(err); return }
walkCall(path, kind, size, opened, rest) ==
    LET r == handleItem(outbound, DestinationPath, StopOnOSError, path, kind, size,
                        opened, inEnd = "open")
    IN /\ outbound' = r.out
       /\ DestinationPath' = r.dest
       /\ IF r.err = Err("nil")
          THEN /\ pc' = "walk"
               /\ wstack' = rest
               /\ hist' = [hist EXCEPT !.item =
                     Item(IF kind = "err" THEN "skip" ELSE kind, path, size,
                          DestinationPath, Len(outbound))]
               /\ UNCHANGED errors
          ELSE /\ pc' = "done"
               /\ wstack' = <<>>
               /\ errors' \in engineAddError(r.err)
               /\ hist' = [hist EXCEPT !.item =
                     Item("abort", path, size, DestinationPath, Len(outbound))]

\* filepath.Walk(localPath, c.handleItem): the next entry of a pre-order walk in
\* the order of the names.  First the root as it was given; then a child
\* Join(dir, name) of a directory still being listed, with a later name than
\* the children already visited there.  An entry is a directory, a file, or
\* an entry whose Lstat failed.
walkEntry ==
    /\ ~panicked /\ pc = "walk" /\ wstack # <<>>
    /\ Len(outbound) < MaxSent
    /\ \E kind \in {"dir", "file", "err"}, opened \in BOOLEAN :
       \E size \in (IF kind = "file" THEN Sizes ELSE {0}) :
         \/ /\ wstack[1].next = 0
            /\ kind = "file" \/ opened
            /\ walkCall(wstack[1].path, kind, size, opened,
                        IF kind = "dir"
                        THEN <<[path |-> wstack[1].path, next |-> 1]>>
                        ELSE <<>>)
         \/ /\ wstack[1].next > 0
            /\ kind = "file" \/ opened
            /\ \E level \in 1..Len(wstack) :
               \E i \in wstack[level].next..Len(Names) :
                 /\ kind = "dir" => level < MaxDepth
                 /\ LET path == Join(<<wstack[level].path, <<Names[i]>>>>) IN
                    walkCall(path, kind, size, opened,
                             SubSeq(wstack, 1, level - 1)
                             \o <<[path |-> wstack[level].path, next |-> i + 1]>>
                             \o (IF kind = "dir"
                                 THEN <<[path |-> path, next |-> 1]>>
                                 ELSE <<>>))
    /\ UNCHANGED <<scpStdoutPipe, callerPc, panicked, StopOnOSError, cmd,
                   msg, copyLeft, copyPath, fsDirs, fsFiles>>
    /\ UNCHANGED peerVars
    /\ UNCHANGED addErrorOld
    /\ UNCHANGED codec
    /\ UNCHANGED cancelled

\* the walk is over: paths := strings.Split(c.DestinationPath[0], "/"), one
\* EndOfDirectory message for each; DestinationPath[0] of an empty slice panics
handleUploadEnd ==
    /\ ~panicked /\ pc = "walk"
    /\ IF wstack = <<>> THEN TRUE ELSE wstack[1].next > 0
    /\ wstack' = <<>>
    /\ IF DestinationPath = <<>>
       THEN /\ panicked' = TRUE
            /\ UNCHANGED <<pc, outbound>>
       ELSE /\ outbound' = outbound
                   \o EndOfDirectoryLoop(0, Len(SplitSlash(DestinationPath[1])))
            /\ pc' = "done"
            /\ UNCHANGED panicked
    /\ UNCHANGED <<DestinationPath, errors, scpStdoutPipe, callerPc, StopOnOSError, cmd,
                   msg, copyLeft, copyPath, fsDirs, fsFiles, hist>>
    /\ UNCHANGED peerVars
    /\ UNCHANGED addErrorOld
    /\ UNCHANGED codec
    /\ UNCHANGED cancelled

(***************************************************************************)
(* An upload                                                               *)
(***************************************************************************)
NextUpload ==
    \/ \E path \in Dests : SetDestinationPath(path)
    \/ SetStopOnOSError
    \/ \E localPath \in Roots : Upload(localPath)
    \/ UploadRun
    \/ UploadReturn
    \/ addErrorRun
    \/ Cancel
    \/ PeerAck
    \/ PeerExit
    \/ ChannelBreak
    \/ handleUploadOpen
    \/ handleUploadInstall
    \/ walkEntry
    \/ handleUploadEnd

SpecUpload == Init /\ [][NextUpload]_vars

(***************************************************************************)
(* The codec on its own: sendFileMessage, sendDirectoryMessage,            *)
(* parseMessage                                                            *)
(***************************************************************************)
MaxNameLen == 2     \* characters of an encoded name

CodecAlphabet == {"a", SP, "1", "C"}

\* the non-empty strings over CodecAlphabet of at most n characters
RECURSIVE NamesUpTo(_)
NamesUpTo(n) ==
    IF n = 0 THEN {}
    ELSE LET shorter == NamesUpTo(n - 1) IN
         {<<c>> : c \in CodecAlphabet} \cup shorter
         \cup {Append(w, c) : w \in shorter, c \in CodecAlphabet}

CodecSizes == {0, 7, 10, 25}

\* raw lines for parseMessage: a message or a near miss, with and without
\* characters before it
RawCores ==
    { <<"C", "0", "6", "4", "4", SP, "2", "5", SP, "f">>,
      <<"D", "0", "7", "5", "5", SP, "0", SP, "a">>,
      <<"C", "0", "6", "4", SP, "2", SP, "f">>,
      <<"C", "0", "6", "4", "4", SP, "x", SP, "f">>,
      <<"C", "0", "6", "4", "4", SP, "2", SP>>,
      <<"C", "0", "6", "4", "4", "2", SP, "f">>,
      <<"D", "0", "7", "5", "5", SP, "0">>,
      <<"I", "n", "v", "a", "l", "i", "d", SP, "m", "s", "g">>,
      <<>> }

RawPrefixes == { <<>>, <<"x">>, <<"C", "z", SP>>, <<"D">>, <<SP>> }

RawSuffixes == { <<>>, <<SP, "g">> }

RawLines == {p \o c \o q : p \in RawPrefixes, c \in RawCores, q \in RawSuffixes}

CodecInputs ==
    {CodecIn("file", fileCopyRx, n, name, <<>>) :
        n \in CodecSizes, name \in NamesUpTo(MaxNameLen)}
    \cup {CodecIn("dir", dirCopyRx, 0, name, <<>>) : name \in NamesUpTo(MaxNameLen)}
    \cup {CodecIn("parse", rx, 0, <<>>, raw) :
             rx \in {fileCopyRx, dirCopyRx}, raw \in RawLines}

\* a Client and a message for its codec
InitCodec ==
    /\ DestinationPath = <<>>
    /\ errors = <<>>
    /\ scpStdoutPipe = "nil"
    /\ outbound = <<>>
    /\ inbound = <<>>
    /\ inEnd = "open"
    /\ chunks = 0
    /\ callerPc = "idle"
    /\ pc = "off"
    /\ msg = <<>>
    /\ copyLeft = 0
    /\ copyPath = <<>>
    /\ fsDirs = {DOT, <<SLASH>>} \cup Dests
    /\ fsFiles = <<>>
    /\ panicked = FALSE
    /\ StopOnOSError = FALSE
    /\ cmd = <<>>
    /\ wstack = <<>>
    /\ addErrorOld = <<>>
    /\ codec \in CodecInputs
    /\ cancelled = FALSE
    /\ hist = NoHist

codecFrame ==
    UNCHANGED <<DestinationPath, errors, scpStdoutPipe, outbound, inbound, inEnd, chunks,
                callerPc, pc, msg, copyLeft, copyPath, fsDirs, fsFiles,
                panicked, StopOnOSError, cmd, wstack, addErrorOld, cancelled, hist>>

\* sendFileMessage(w, 0644, n, name), then parseMessage of the line written,
\* its trailing newline removed, with fileCopyRx
encodeDecodeFile ==
    /\ codec.kind = "file" /\ ~codec.done
    /\ LET line == sendFileMessage(FileMode, codec.n, codec.name) IN
       codec' = [codec EXCEPT !.done = TRUE, !.line = line,
                   !.out = parseMessage(SubSeq(line, 1, Len(line) - 1), fileCopyRx)]
    /\ codecFrame

\* sendDirectoryMessage(w, 0644, name), then parseMessage with dirCopyRx
encodeDecodeDir ==
    /\ codec.kind = "dir" /\ ~codec.done
    /\ LET line == sendDirectoryMessage(FileMode, codec.name) IN
       codec' = [codec EXCEPT !.done = TRUE, !.line = line,
                   !.out = parseMessage(SubSeq(line, 1, Len(line) - 1), dirCopyRx)]
    /\ codecFrame

\* parseMessage(raw, rx)
decodeRaw ==
    /\ codec.kind = "parse" /\ ~codec.done
    /\ codec' = [codec EXCEPT !.done = TRUE, !.out = parseMessage(codec.raw, codec.rx)]
    /\ codecFrame

NextCodec ==
    \/ encodeDecodeFile
    \/ encodeDecodeDir
    \/ decodeRaw

SpecCodec == InitCodec /\ [][NextCodec]_vars

(***************************************************************************)
(* Properties of the codec (SpecCodec)                                     *)
(***************************************************************************)
\* C21: decoding is a left-inverse of encoding: the line sendFileMessage or
\* sendDirectoryMessage writes for mode 0644, a length n and a name, with its
\* trailing newline removed, is parsed by parseMessage with the matching
\* regexp into the whole line, mode "0644", the decimal text of n and the
\* name that was encoded.
C21_DecodeInvertsEncode ==
    (codec.done /\ codec.kind \in {"file", "dir"}) =>
      /\ codec.line[Len(codec.line)] = LF
      /\ codec.out.ok
      /\ codec.out.whole = SubSeq(codec.line, 1, Len(codec.line) - 1)
      /\ codec.out.mode = <<"0", "6", "4", "4">>
      /\ Atoi(codec.out.length) = codec.n
      /\ Len(codec.out.length) = 1 \/ codec.out.length[1] # "0"
      /\ codec.out.name = codec.name

\* a file of 25 bytes whose name begins with a space and goes on with a digit
C21_Witness ==
    /\ codec.done /\ codec.kind = "file" /\ codec.n = 25
    /\ codec.name = <<SP, "1">>
    /\ codec.out.ok /\ codec.out.name = <<SP, "1">>
    /\ codec.out.length = <<"2", "5">>

\* s is, from its first to its last character, a message of the shape
\* <tag>, four digits, a space, a decimal length, a space, a non-empty name
FullShape(s, tag) ==
    \E k \in 1..Len(s) :
      /\ Len(s) >= 8 + k
      /\ s[1] = tag
      /\ \A j \in 2..5 : IsDigit(s[j])
      /\ s[6] = SP
      /\ \A j \in 7..(6 + k) : IsDigit(s[j])
      /\ s[7 + k] = SP
      /\ \A j \in (8 + k)..Len(s) : s[j] # LF

\* C22: for every line that is not, from its first to its last character, a
\* message of the decoder's shape, parseMessage fails with the error "Could not
\* parse protocol message: " followed by the line, and yields no field values.
C22_MalformedLineRejected ==
    (codec.done /\ codec.kind = "parse" /\ ~FullShape(codec.raw, codec.rx)) =>
      /\ ~codec.out.ok
      /\ codec.out.err = [kind |-> "Could not parse protocol message: ",
                          text |-> codec.raw]
      /\ codec.out.mode = <<>> /\ codec.out.length = <<>> /\ codec.out.name = <<>>

(***************************************************************************)
(* Properties of a download (Spec)                                         *)
(***************************************************************************)
\* number of writes in out that are w
NumWrites(out, w) == Cardinality({i \in 1..Len(out) : out[i] = w})

\* all but the last element
Front(q) == IF q = <<>> THEN <<>> ELSE SubSeq(q, 1, Len(q) - 1)

\* C1: a handled DirCopy message appends exactly its directory name to
\* DestinationPath ("." and "D0755 0 a" give <<".", "a">>), a handled
\* EndOfDirectory removes exactly the last segment (an empty stack stays
\* empty), a handled FileCopy leaves it unchanged; the depth is the starting
\* depth plus the D messages handled minus the E messages that found a
\* non-empty stack.
C1_StackFollowsMessages ==
    /\ pc # "off" =>
         Len(DestinationPath) = hist.depth0 + hist.dirs - hist.pops
    /\ hist.last.kind = "D" =>
         /\ Front(DestinationPath) = hist.last.before
         /\ Len(DestinationPath) = Len(hist.last.before) + 1
         /\ \A n \in DirNames :
              hist.last.msg = PeerDirLine(n) => DestinationPath[Len(DestinationPath)] = n
    /\ hist.last.kind = "E" => DestinationPath = Front(hist.last.before)
    /\ hist.last.kind = "C" => DestinationPath = hist.last.before

\* a D message handled at <<".">>, later an E message that removed a segment
C1_Witness ==
    /\ hist.last.kind = "E" /\ hist.last.before = <<DOT, <<"a">>>>
    /\ DestinationPath = <<DOT>>
    /\ hist.dirs = 1 /\ hist.pops = 1

\* C2: a handled FileCopy message of declared length n has created the file at
\* current()/filename with exactly n bytes and has read exactly n bytes of the
\* stream after its line; when the n bytes were already in the stream the
\* file holds exactly those, and the copy then fails only by cancellation or
\* by a failing write to the local file, never for want of bytes; n = 0 gives
\* an empty file and reads nothing.
C2_FileCopyExact ==
    /\ (hist.last.kind = "C" /\ pc = "read") =>
         /\ hist.last.path \in DOMAIN fsFiles
         /\ \A k \in FileLens, f \in FileNames :
              hist.last.msg = PeerFileLine(k, f) =>
                /\ hist.last.n = k
                /\ hist.last.path = Clean(Join(hist.last.before) \o <<SLASH>> \o f)
         /\ Len(fsFiles[hist.last.path]) = hist.last.n
         /\ hist.nread = hist.last.at + hist.last.n
         /\ hist.last.full => fsFiles[hist.last.path] = hist.last.expect
    /\ (hist.last.kind = "fail" /\ hist.last.full) =>
         hist.last.cause \in {"Transfer cancelled", "local write failed"}

\* a file of 2 bytes handled while more than its body was in the stream: the
\* body is the two bytes after the line, the byte after them is still unread
C2_Witness ==
    /\ hist.last.kind = "C" /\ pc = "read"
    /\ hist.last.n = 2 /\ hist.last.full
    /\ fsFiles[hist.last.path] = <<"E", LF>>
    /\ inbound = <<"x">>

\* the engine task takes a step
EngineStep == pc' # pc \/ hist' # hist

\* the engine task records err in this step: err is appended to the error
\* list as the engine's addError read it (see engineErrorsRead)
EngineRecorded(err) ==
    \/ errors' = Append(errors, err)
    \/ errors' = Append(SubSeq(errors, 1, hist.errs0), err)

\* a Read of the embedded reader returned r in this step: r[1] bytes are taken
\* from the stream, and r[2] is what io.CopyN gets, which it records unless
\* it is nil (then only a failing write to the local file is recorded)
UnderlyingRead(r) ==
    /\ inbound' = SubSeq(inbound, r[1] + 1, Len(inbound))
    /\ hist'.nread = hist.nread + r[1]
    /\ IF r[2] = "nil"
       THEN errors' = errors \/ EngineRecorded(ErrWriteLocal)
       ELSE EngineRecorded(Err(r[2]))

\* C5: a Read on the readCanceller made when the signal is raised returns 0
\* bytes and "Transfer cancelled" and takes nothing from the underlying
\* reader; a Read made when it is not raised is the underlying reader's Read,
\* end of stream included, also when that Read had to wait; a raised signal
\* stays raised.
C5_ReadCancellerRead ==
    [][ /\ (pc = "copy" /\ EngineStep) =>
             IF scpStdoutPipe = "closed"
             THEN /\ inbound' = inbound
                  /\ hist'.nread = hist.nread
                  /\ fsFiles' = fsFiles
                  /\ EngineRecorded(ErrCancelled)
             ELSE LET r == bufioRead(Len(inbound), copyLeft, inEnd) IN
                  IF r[2] = "block"
                  THEN pc' = "copyRead" /\ inbound' = inbound /\ errors' = errors
                  ELSE UnderlyingRead(r)
        /\ (pc = "copyRead" /\ EngineStep) =>
             UnderlyingRead(bufioRead(Len(inbound), copyLeft, inEnd))
        /\ scpStdoutPipe = "closed" => scpStdoutPipe' = "closed" ]_vars

\* a body copy failed by cancellation while bytes were waiting to be read
C5_Witness ==
    /\ pc = "done" /\ hist.last.kind = "fail"
    /\ hist.last.cause = "Transfer cancelled"
    /\ inbound # <<>>

\* C6 as claimed: once the signal is raised, the engine's next read of the
\* inbound stream, for a message line or for a file body, fails with
\* "Transfer cancelled", the error is recorded and the engine stops.
C6_CancelStopsNextRead ==
    [][ (scpStdoutPipe = "closed" /\ pc \in {"read", "copy", "copyRead"} /\ EngineStep) =>
          /\ EngineRecorded(ErrCancelled)
          /\ pc' = "done"
          /\ inbound' = inbound ]_vars

\* C7 as claimed: once Download has returned the engine task does nothing more.
C7_NoEngineStepAfterReturn ==
    [][ callerPc = "returned" =>
          /\ pc' = pc /\ hist' = hist
          /\ inbound' = inbound /\ outbound' = outbound
          /\ DestinationPath' = DestinationPath
          /\ errors' = errors ]_vars

\* C9: one Ack on entry, before anything is read; one Ack for every line read,
\* before the message is acted on; one more after the action succeeded; so
\* 1 + 2k Acks after k handled messages, and no completing Ack after a failure.
C9_AckCount ==
    /\ NumWrites(outbound, Ack)
         = (IF hist.started THEN 1 ELSE 0) + hist.lines + hist.handled
    /\ hist.nread > 0 => (hist.started /\ outbound[1] = Ack)
    /\ pc = "read" =>
         /\ hist.lines = hist.handled
         /\ NumWrites(outbound, Ack) = 1 + 2 * hist.handled
    /\ pc \in {"dispatch", "copy", "copyRead"} =>
         /\ hist.lines = hist.handled + 1
         /\ outbound[Len(outbound)] = Ack
    /\ hist.last.kind = "fail" =>
         /\ hist.lines = hist.handled + 1
         /\ NumWrites(outbound, Ack) = 2 + 2 * hist.handled

\* two messages handled: five Acks and nothing else written
C9_Witness ==
    /\ pc = "read" /\ hist.handled = 2
    /\ outbound = <<Ack, Ack, Ack, Ack, Ack>>

\* C10: when the read of the next line reaches the end of the stream the
\* engine stops and records nothing; when it fails otherwise the engine
\* records that error and stops; it sends nothing more and handles nothing more.
C10_ReadFailureEndsEngine ==
    [][ /\ (pc = "read" /\ pc' = "done") =>
             /\ IF inEnd = "eof" THEN errors' = errors ELSE EngineRecorded(ErrRead)
             /\ outbound' = outbound
             /\ hist'.lines = hist.lines /\ hist'.handled = hist.handled
             /\ DestinationPath' = DestinationPath
             /\ fsDirs' = fsDirs /\ fsFiles' = fsFiles
        /\ pc = "done" =>
             /\ pc' = "done" /\ hist' = hist /\ outbound' = outbound
             /\ DestinationPath' = DestinationPath
             /\ fsDirs' = fsDirs /\ fsFiles' = fsFiles ]_vars

\* the engine ended at the end of the stream after a handled message, with no error
C10_Witness ==
    /\ pc = "done" /\ inEnd = "eof" /\ errors = <<>>
    /\ hist.handled >= 1 /\ hist.started

\* C11: when the sink engine has received a line that begins with the Warning
\* or Error control byte, or one that is none of FileCopy, DirCopy and
\* EndOfDirectory (a Timestamp line included), it records exactly one error and
\* stops: the Directory Stack is unchanged, nothing of the stream is read, and
\* no Ack follows the one that confirmed the line; stopped, it reads and sends
\* nothing more.
C11_OtherLineStopsEngine ==
    [][ /\ ( /\ pc = "dispatch" /\ pc' # pc
             /\ ~isFileCopyMsg(msg) /\ ~isDirCopyMsg(msg) /\ msg # endDir ) =>
             /\ pc' = "done"
             /\ \/ EngineRecorded(ErrWarningMsg(msg))
                \/ EngineRecorded(ErrErrorMsg(msg))
                \/ EngineRecorded(ErrUnhandledMsg(msg))
             /\ DestinationPath' = DestinationPath
             /\ outbound' = outbound
             /\ outbound[Len(outbound)] = Ack
             /\ inbound' = inbound
             /\ hist'.lines = hist.lines
        /\ (pc = "done" /\ hist.last.cause \in {"warning", "error", "unhandled"}) =>
             /\ pc' = "done" /\ outbound' = outbound
             /\ hist'.lines = hist.lines /\ hist'.nread = hist.nread ]_vars

\* the engine stopped on a Timestamp line, after a directory had been entered
C11_Witness ==
    /\ pc = "done" /\ hist.last.kind = "fail" /\ hist.last.cause = "unhandled"
    /\ HasPrefix(hist.last.msg, "T")
    /\ hist.dirs = 1
    /\ Len(errors) = 1

\* C12: when the inbound stream ends or a read fails before the declared
\* length of a FileCopy body has been copied, the sink engine writes one Error
\* control byte and no Ack, records the failure and stops; the local file
\* keeps the bytes copied so far; stopped, the engine writes nothing more.
C12_ShortBodyFails ==
    [][ /\ ( /\ pc \in {"copy", "copyRead"} /\ EngineStep
             /\ inbound = <<>> /\ inEnd # "open"
             /\ ~(pc = "copy" /\ scpStdoutPipe = "closed") ) =>
             /\ copyLeft > 0
             /\ pc' = "done"
             /\ outbound' = Append(outbound, ErrByte)
             /\ NumWrites(outbound, ErrByte) = 0
             /\ EngineRecorded(IF inEnd = "eof" THEN ErrEOF ELSE ErrRead)
             /\ fsFiles' = fsFiles
             /\ copyPath \in DOMAIN fsFiles
             /\ Len(fsFiles[copyPath]) = hist.cur.n - copyLeft
        /\ (pc = "done" /\ hist.last.cause \in {"EOF", "read failed"}) =>
             /\ pc' = "done" /\ outbound' = outbound /\ fsFiles' = fsFiles ]_vars

\* the stream ended after one byte of a body declared with two: the Error
\* byte is the last write, the file holds the one byte
C12_Witness ==
    /\ pc = "done" /\ hist.last.kind = "fail" /\ hist.last.cause = "EOF"
    /\ hist.last.n = 2
    /\ hist.last.path \in DOMAIN fsFiles
    /\ fsFiles[hist.last.path] = <<"x">>
    /\ outbound[Len(outbound)] = ErrByte
    /\ errors = <<ErrEOF>>

\* C17: every error recorded is appended at the end of the error list and no
\* element is ever removed, replaced or reordered; LastError is the last
\* element of ErrorStack, and is no error exactly when the list is empty.
C17_ErrorsAppendOnly ==
    [][ /\ \/ errors' = errors
           \/ /\ Len(errors') = Len(errors) + 1
              /\ SubSeq(errors', 1, Len(errors)) = errors
        /\ GetErrorStack(errors') = errors'
        /\ GetLastError(errors') = IF errors' = <<>> THEN Err("nil")
                                   ELSE errors'[Len(errors')] ]_vars

\* C18: LastError queried after a Download that completed cleanly (the remote
\* command exited, session.Run returned no error, the engine ended at the end
\* of the stream, and no error was recorded during the transfer) returns no
\* error, whatever the outcome of the transfers before it on that Client.
C18_CleanTransferNoLastError ==
    ( /\ callerPc = "returned" /\ pc = "done"
      /\ hist.started /\ inEnd = "eof"
      /\ Len(errors) = hist.errs0 ) =>
    GetLastError(errors) = Err("nil")

\* C19: when Cancel is called several times during one transfer, the first
\* call raises the signal and every later call completes without fault and
\* changes nothing.
C19_CancelRaisesOnce ==
    [][ (callerPc = "run" /\ scpStdoutPipe = "closed") =>
        (~panicked' /\ scpStdoutPipe' = "closed") ]_vars

\* C20: Cancel called when no transfer is active is a no-op: before the first
\* transfer it changes nothing, and after a transfer has returned and its
\* engine has ended no number of calls faults.
C20_CancelWhenIdle ==
    [][ /\ (callerPc = "idle" /\ pc = "off") =>
             (scpStdoutPipe' = scpStdoutPipe /\ ~panicked')
        /\ (callerPc = "returned" /\ pc \in {"off", "done"}) =>
             ~panicked' ]_vars

\* C23: when creating the directory of a DirCopy message fails, as it does
\* when something exists at its path, the sink engine leaves the Directory
\* Stack unchanged, records the failure and stops: it sends no completing Ack,
\* creates nothing and reads no further message.
C23_MkdirFailureStops ==
    [][ LET parts  == parseMessage(msg, dirCopyRx)
            target == Clean(TargetPath(DestinationPath, parts.name))
            isDir  == /\ pc = "dispatch" /\ pc' # pc
                      /\ ~isFileCopyMsg(msg) /\ isDirCopyMsg(msg) /\ parts.ok
        IN /\ (isDir /\ (target \in fsDirs \/ target \in DOMAIN fsFiles)) =>
                pc' = "done"
           /\ (isDir /\ pc' = "done") =>
                /\ DestinationPath' = DestinationPath
                /\ EngineRecorded(ErrMkdir)
                /\ outbound' = outbound
                /\ inbound' = inbound
                /\ fsDirs' = fsDirs /\ fsFiles' = fsFiles
           /\ (pc = "done" /\ hist.last.cause = "mkdir") =>
                /\ pc' = "done" /\ outbound' = outbound
                /\ hist'.lines = hist.lines /\ hist'.nread = hist.nread
                /\ fsDirs' = fsDirs ]_vars

\* the peer sent a directory, its end, and the same directory again: the
\* second Mkdir found the directory and the engine stopped
C23_Witness ==
    /\ pc = "done" /\ hist.last.kind = "fail" /\ hist.last.cause = "mkdir"
    /\ hist.dirs = 1 /\ hist.pops = 1
    /\ DestinationPath = hist.last.before
    /\ errors = <<ErrMkdir>>
    /\ outbound[Len(outbound)] = Ack

\* C24: while the engine task of a transfer is running, the error list is
\* written by the engine task only: the task that runs the remote command
\* appends nothing to it, so no error is lost to a concurrent append.
C24_EngineOwnsErrors ==
    [][ (pc \notin {"off", "done"} /\ errors' # errors) => EngineStep ]_vars

\* C26: in a download the first segment of DestinationPath is the configured
\* destination whenever the sink engine creates a file or a directory: no
\* run of EndOfDirectory messages makes it create anything outside the
\* destination.
C26_CreatesUnderDestination ==
    [][ (fsDirs' # fsDirs \/ fsFiles' # fsFiles) =>
          (DestinationPath # <<>> /\ DestinationPath[1] = hist.dest0[1]) ]_vars

\* C28: a Cancel made between the call and the return of a download takes
\* effect on that transfer, also when it was made before the engine installed
\* the reader: once the engine reads from the installed reader, the reader's
\* cancel channel is closed.
C28_CancelDuringTransferTakesEffect ==
    (cancelled /\ pc \in {"read", "dispatch", "copy", "copyRead"}) =>
      scpStdoutPipe = "closed"

(***************************************************************************)
(* Properties of an upload (SpecUpload)                                    *)
(***************************************************************************)
\* C3: for a directory entry handled while the Directory Stack is non-empty,
\* the source engine writes max(0, oldDepth - newDepth + 1) EndOfDirectory
\* messages, where oldDepth is the segment count of the stack's path and
\* newDepth that of the entry's path, all of them before the entry's DirCopy
\* message; for the first directory (empty stack) it writes none; afterwards
\* the stack holds exactly the entry's path.
C3_EndOfDirectoryCount ==
    hist.item.kind = "dir" =>
      LET it       == hist.item
          oldDepth == Len(SplitSlash(Join(it.before)))
          newDepth == Len(SplitSlash(it.path))
          k        == IF it.before = <<>> THEN 0
                      ELSE IF oldDepth - newDepth + 1 > 0
                      THEN oldDepth - newDepth + 1 ELSE 0
      IN /\ Len(outbound) >= it.outAt + k + 1
         /\ \A j \in 1..k : outbound[it.outAt + j] = sendEndOfDirectoryMessage
         /\ outbound[it.outAt + k + 1] = sendDirectoryMessage(FileMode, Base(it.path))
         /\ DestinationPath = <<it.path>>

\* the walk left a directory two levels down for a sibling of its parent:
\* two EndOfDirectory messages, then the DirCopy message
C3_Witness ==
    /\ hist.item.kind = "dir" /\ hist.item.before # <<>>
    /\ Len(SplitSlash(Join(hist.item.before))) = Len(SplitSlash(hist.item.path)) + 1
    /\ pc = "walk"
    /\ outbound[Len(outbound) - 2] = sendEndOfDirectoryMessage
    /\ outbound[Len(outbound) - 1] = sendEndOfDirectoryMessage

\* C13: for a file entry without error the source engine writes, in this
\* order and with nothing in between, the FileCopy line with mode 0644, the
\* file's length and its base name; if the length is greater than 0, that many
\* payload bytes; then one Ack byte.
C13_FileEntryWrites ==
    hist.item.kind = "file" =>
      LET it   == hist.item
          line == <<"C", "0", "6", "4", "4", SP>> \o Itoa(it.size) \o <<SP>>
                  \o Base(it.path) \o <<LF>>
          want == IF it.size > 0
                  THEN <<line, [i \in 1..it.size |-> "x"], <<NUL>>>>
                  ELSE <<line, <<NUL>>>>
      IN /\ Len(outbound) >= it.outAt + Len(want)
         /\ SubSeq(outbound, it.outAt + 1, it.outAt + Len(want)) = want
         /\ pc = "walk" => Len(outbound) = it.outAt + Len(want)

\* a file of two bytes in a directory was sent: line, body, Ack
C13_Witness ==
    /\ pc = "walk" /\ hist.item.kind = "file" /\ hist.item.size = 2
    /\ hist.item.before # <<>>
    /\ Len(outbound) = hist.item.outAt + 3
    /\ outbound[Len(outbound) - 1] = <<"x", "x">>
    /\ outbound[Len(outbound)] = Ack

\* C14: for an upload entry on which a local filesystem error occurs (the
\* walk reports an error for it, or the file cannot be opened): with
\* StopOnOSError set the error is recorded and the transfer stops with no
\* further message; with StopOnOSError not set the entry is passed over, no
\* error is recorded, no message is written and the walk goes on.
C14_OSErrorPolicy ==
    [][ ( /\ pc = "walk" /\ hist'.item # hist.item
          /\ \/ hist'.item.kind = "skip"
             \/ /\ hist'.item.kind = "abort"
                /\ errors'[Len(errors')] \in {ErrWalk, ErrOpen} ) =>
        IF StopOnOSError
        THEN /\ pc' = "done"
             /\ Len(errors') = Len(errors) + 1
             /\ outbound' = outbound
        ELSE /\ pc' = "walk"
             /\ errors' = errors
             /\ outbound' = outbound ]_vars

\* the number of DirCopy lines among the first k writes of out
NumDirCopy(out, k) ==
    Cardinality({i \in 1..k : HasPrefix(out[i], dirCopyRx)})

\* the number of EndOfDirectory lines among the first k writes of out
NumEndOfDirectory(out, k) ==
    Cardinality({i \in 1..k : out[i] = <<"E", LF>>})

\* C15: at no prefix of an upload's output are there more EndOfDirectory
\* messages than DirCopy messages, and when the upload has completed without
\* error there are as many of the one as of the other, whatever the root path.
C15_EndOfDirectoryBalanced ==
    /\ \A k \in 0..Len(outbound) :
         NumEndOfDirectory(outbound, k) <= NumDirCopy(outbound, k)
    /\ (pc = "done" /\ errors = <<>>) =>
         NumEndOfDirectory(outbound, Len(outbound)) = NumDirCopy(outbound, Len(outbound))

\* C16: an upload whose walk yields a file entry and no directory entry sends
\* the FileCopy message, the body and the Ack, and then ends without fault.
C16_SingleFileUploadEnds ==
    [][ ( /\ pc = "walk" /\ hist.item.kind = "file" /\ DestinationPath = <<>>
          /\ wstack = <<>>
          /\ scpStdoutPipe # "closed" ) =>       \* no Cancel after a Cancel
        ( /\ ~panicked'
          /\ pc' # pc => (pc' = "done" /\ outbound' = outbound) ) ]_vars

\* C25: when the source engine sends a FileCopy message in the walk of a
\* directory tree, the directories open on the wire (DirCopy messages not yet
\* closed by an EndOfDirectory message) are the ancestors of the file from the
\* upload root down to its parent: as many as the file's path has segments
\* more than the root's.
C25_FileUnderOpenAncestors ==
    (pc = "walk" /\ hist.item.kind = "file" /\ wstack # <<>>) =>
      NumDirCopy(outbound, hist.item.outAt) - NumEndOfDirectory(outbound, hist.item.outAt)
        = Len(SplitSlash(hist.item.path)) - Len(SplitSlash(wstack[1].path))

\* C27: the remote command of an upload names the destination path that was
\* configured before Upload was called, whatever the engine task has done to
\* DestinationPath by then.
C27_CommandNamesDestination ==
    callerPc = "run" => cmd = Join(hist.dest0)

\* the number of protocol messages (DirCopy, FileCopy, EndOfDirectory) in out
MessagesSent(out) ==
    Cardinality({i \in 1..Len(out) :
                   out[i] # <<>> /\ out[i][1] \in {fileCopyRx, dirCopyRx, "E"}})

\* the bytes of the inbound stream the engine has taken: every byte the sink
\* wrote during an upload is one PeerAck step
AcksProcessed == chunks - Len(inbound)

\* C8: in an upload the source engine has processed the peer's Ack for each
\* message it sent before it sends the next one: at no point has it sent two
\* messages more than the Acks it has processed.
C8_AckBeforeNextMessage ==
    MessagesSent(outbound) <= AcksProcessed + 1

(***************************************************************************)
(* The download of the earlier snapshot (src/goscp/goscp.go)               *)
(***************************************************************************)
\* the state the earlier snapshot's download does not use
unusedV1 == <<StopOnOSError, cmd, wstack, addErrorOld, codec, cancelled, hist>>

\* Client.setLastError: c.lastError = err.  The error list holds the one
\* error kept.  The engine task and the task that called Download both
\* assign it and nothing orders them: the assignment made last stays.
setLastErrorV1(err) == <<err>>

\* Client.Download up to the go statement: NewSession, then the engine task
DownloadV1 ==
    /\ ~panicked /\ callerPc = "idle"
    /\ \E ok \in BOOLEAN :
         IF ok
         THEN /\ callerPc' = "run"
              /\ pc' = "open"
              /\ UNCHANGED errors
         ELSE /\ callerPc' = "returned"
              /\ errors' = setLastErrorV1(ErrSession)
              /\ UNCHANGED pc
    /\ UNCHANGED <<DestinationPath, scpStdoutPipe, panicked, msg, copyLeft, copyPath,
                   fsDirs, fsFiles, outbound>>
    /\ UNCHANGED peerVars /\ UNCHANGED unusedV1

\* session.Run returns, once the remote command has exited or the channel has
\* broken, and Download returns; nothing waits for the engine task
DownloadReturnV1 ==
    /\ ~panicked /\ callerPc = "run" /\ inEnd # "open"
    /\ \E ok \in BOOLEAN :
         /\ inEnd = "err" => ~ok
         /\ errors' = IF ok THEN errors ELSE setLastErrorV1(ErrRun)
    /\ callerPc' = "returned"
    /\ UNCHANGED <<DestinationPath, scpStdoutPipe, panicked, pc, msg, copyLeft, copyPath,
                   fsDirs, fsFiles, outbound>>
    /\ UNCHANGED peerVars /\ UNCHANGED unusedV1

\* the engine task's start: session.StdinPipe, session.StdoutPipe, the Ack
\* that initialises the transfer, c.scpStdoutPipe = bufio.NewReader(r)
handleDownloadOpenV1 ==
    /\ ~panicked /\ pc = "open"
    /\ \E ok \in BOOLEAN :
         IF ok
         THEN /\ outbound' = sendAck(outbound)
              /\ scpStdoutPipe' = "open"
              /\ pc' = "read"
              /\ UNCHANGED errors
         ELSE /\ errors' = setLastErrorV1(ErrPipe)
              /\ pc' = "done"
              /\ UNCHANGED <<outbound, scpStdoutPipe>>
    /\ UNCHANGED <<DestinationPath, callerPc, panicked, msg, copyLeft, copyPath,
                   fsDirs, fsFiles>>
    /\ UNCHANGED peerVars /\ UNCHANGED unusedV1

\* c.scpStdoutPipe.ReadString('\n'): at the end of the stream the task
\* returns, on another error it keeps the error and returns; otherwise the
\* trimming and the Ack that confirms the line
handleDownloadReadV1 ==
    /\ ~panicked /\ pc = "read"
    /\ LET i == IndexOf(inbound, LF) IN
         IF i > 0
         THEN /\ inbound' = SubSeq(inbound, i + 1, Len(inbound))
              /\ msg' = TrimSpace(TrimNul(SubSeq(inbound, 1, i)))
              /\ outbound' = sendAck(outbound)
              /\ pc' = "dispatch"
              /\ UNCHANGED errors
         ELSE /\ inEnd # "open"
              /\ inbound' = <<>>
              /\ errors' = IF inEnd = "eof" THEN errors ELSE setLastErrorV1(ErrRead)
              /\ pc' = "done"
              /\ UNCHANGED <<msg, outbound>>
    /\ UNCHANGED <<DestinationPath, scpStdoutPipe, callerPc, panicked, copyLeft, copyPath,
                   fsDirs, fsFiles, inEnd, chunks>>
    /\ UNCHANGED unusedV1

\* strings.HasPrefix(msg, "C"): Client.file up to io.CopyN; a length of 0
\* copies nothing, Client.file returns and the loop sends the confirming Ack
fileV1 ==
    /\ ~panicked /\ pc = "dispatch" /\ HasPrefix(msg, "C")
    /\ LET parts   == parseMessage(msg, fileCopyRx)
           fileLen == Atoi(parts.length)
           target  == TargetPath(DestinationPath, parts.name)
       IN IF ~parts.ok
          THEN /\ errors' = setLastErrorV1(parts.err)
               /\ pc' = "done"
               /\ UNCHANGED <<fsFiles, copyLeft, copyPath, outbound>>
          ELSE \E osOk \in BOOLEAN :
               IF ~(osOk /\ CanCreate(target))
               THEN /\ errors' = setLastErrorV1(ErrCreate)
                    /\ pc' = "done"
                    /\ UNCHANGED <<fsFiles, copyLeft, copyPath, outbound>>
               ELSE /\ fsFiles' = WriteFile(fsFiles, Clean(target), <<>>)
                    /\ IF fileLen = 0
                       THEN /\ pc' = "read"
                            /\ outbound' = sendAck(outbound)
                            /\ UNCHANGED <<errors, copyLeft, copyPath>>
                       ELSE /\ pc' = "copy"
                            /\ copyLeft' = fileLen
                            /\ copyPath' = Clean(target)
                            /\ UNCHANGED <<errors, outbound>>
    /\ UNCHANGED <<DestinationPath, scpStdoutPipe, callerPc, panicked, msg, fsDirs>>
    /\ UNCHANGED peerVars /\ UNCHANGED unusedV1

\* one round of io.CopyN(mw, c.scpStdoutPipe, fileLen): a Read of the
\* bufio.Reader for at most the bytes still wanted, written to the local
\* file, all of them or, when the write fails, fewer; then the next round,
\* or the end of Client.file and the confirming Ack, or sendErr and the error
fileCopyV1 ==
    /\ ~panicked /\ pc = "copy"
    /\ LET r == bufioRead(Len(inbound), copyLeft, inEnd)
           n == r[1]
       IN /\ r[2] # "block"
          /\ IF r[2] = "nil"
             THEN /\ inbound' = SubSeq(inbound, n + 1, Len(inbound))
                  /\ \E wrote \in 0..n :
                       /\ fsFiles' = WriteFile(fsFiles, copyPath,
                                        fsFiles[copyPath] \o SubSeq(inbound, 1, wrote))
                       /\ IF wrote < n
                          THEN /\ errors' = setLastErrorV1(ErrWriteLocal)
                               /\ pc' = "done"
                               /\ outbound' = sendErr(outbound)
                               /\ UNCHANGED copyLeft
                          ELSE /\ copyLeft' = copyLeft - n
                               /\ pc' = IF copyLeft - n = 0 THEN "read" ELSE "copy"
                               /\ outbound' = IF copyLeft - n = 0 THEN sendAck(outbound)
                                              ELSE outbound
                               /\ UNCHANGED errors
             ELSE /\ errors' = setLastErrorV1(Err(r[2]))
                  /\ pc' = "done"
                  /\ outbound' = sendErr(outbound)
                  /\ UNCHANGED <<inbound, fsFiles, copyLeft>>
    /\ UNCHANGED <<DestinationPath, scpStdoutPipe, callerPc, panicked, msg, copyPath,
                   fsDirs, inEnd, chunks>>
    /\ UNCHANGED unusedV1

\* strings.HasPrefix(msg, "D"): Client.directory: parseMessage, os.Mkdir,
\* c.DestinationPath = append(c.DestinationPath, parts["dirname"]); then the
\* confirming Ack
directoryV1 ==
    /\ ~panicked /\ pc = "dispatch" /\ ~HasPrefix(msg, "C") /\ HasPrefix(msg, "D")
    /\ LET parts  == parseMessage(msg, dirCopyRx)
           target == TargetPath(DestinationPath, parts.name)
       IN IF ~parts.ok
          THEN /\ errors' = setLastErrorV1(parts.err)
               /\ pc' = "done"
               /\ UNCHANGED <<fsDirs, DestinationPath, outbound>>
          ELSE \E osOk \in BOOLEAN :
               IF ~(osOk /\ CanMkdir(target))
               THEN /\ errors' = setLastErrorV1(ErrMkdir)
                    /\ pc' = "done"
                    /\ UNCHANGED <<fsDirs, DestinationPath, outbound>>
               ELSE /\ fsDirs' = fsDirs \cup {Clean(target)}
                    /\ DestinationPath' = Append(DestinationPath, parts.name)
                    /\ pc' = "read"
                    /\ outbound' = sendAck(outbound)
                    /\ UNCHANGED errors
    /\ UNCHANGED <<scpStdoutPipe, callerPc, panicked, msg, copyLeft, copyPath, fsFiles>>
    /\ UNCHANGED peerVars /\ UNCHANGED unusedV1

\* msg == endDir: Client.upDirectory:
\* c.DestinationPath = c.DestinationPath[:len(c.DestinationPath)-1]
\* the slice expression with a negative bound is a run-time panic; otherwise
\* the confirming Ack follows
upDirectoryV1 ==
    /\ ~panicked /\ pc = "dispatch" /\ ~HasPrefix(msg, "C") /\ ~HasPrefix(msg, "D")
    /\ msg = endDir
    /\ IF Len(DestinationPath) - 1 >= 0
       THEN /\ DestinationPath' = SubSeq(DestinationPath, 1, Len(DestinationPath) - 1)
            /\ pc' = "read"
            /\ outbound' = sendAck(outbound)
            /\ UNCHANGED panicked
       ELSE /\ panicked' = TRUE
            /\ UNCHANGED <<DestinationPath, pc, outbound>>
    /\ UNCHANGED <<errors, scpStdoutPipe, callerPc, msg, copyLeft, copyPath,
                   fsDirs, fsFiles>>
    /\ UNCHANGED peerVars /\ UNCHANGED unusedV1

\* else: c.setLastError(fmt.Errorf("Unhandled message: [%q]\n", msg)); return
handleOtherV1 ==
    /\ ~panicked /\ pc = "dispatch" /\ ~HasPrefix(msg, "C") /\ ~HasPrefix(msg, "D")
    /\ msg # endDir
    /\ errors' = setLastErrorV1(ErrUnhandledMsg(msg))
    /\ pc' = "done"
    /\ UNCHANGED <<DestinationPath, scpStdoutPipe, callerPc, panicked, msg, copyLeft,
                   copyPath, fsDirs, fsFiles, outbound>>
    /\ UNCHANGED peerVars /\ UNCHANGED unusedV1

\* a download of the earlier snapshot
NextStackV1 ==
    \/ \E path \in Dests : SetDestinationPath(path)
    \/ DownloadV1
    \/ DownloadReturnV1
    \/ \E c \in PeerChunks : PeerSend(c)
    \/ PeerExit
    \/ ChannelBreak
    \/ handleDownloadOpenV1
    \/ handleDownloadReadV1
    \/ fileV1
    \/ fileCopyV1
    \/ directoryV1
    \/ upDirectoryV1
    \/ handleOtherV1

SpecStackV1 == Init /\ [][NextStackV1]_vars

\* C4: over every sequence of push and pop operations on DestinationPath no
\* operation faults: a pop on a stack of one segment yields the empty stack
\* and a pop on the empty stack leaves it empty.
C4_PushPopNeverFaults ==
    [][ /\ ~panicked'
        /\ Len(DestinationPath') >= 0
        /\ Len(DestinationPath') < Len(DestinationPath) =>
             DestinationPath' = SubSeq(DestinationPath, 1, Len(DestinationPath) - 1) ]_vars

=============================================================================
